---- MODULE Spec2Model ----
(***************************************************************************)
(* Batch/cache controller of the iroAwase colour-transfer component        *)
(* (src/unnamed/part_002, function ColorTransfer).                         *)
(*                                                                         *)
(* React state (reference, targets, results, processStatus, errorMessage)  *)
(* and refs (imageCache, workerRef) are the variables.  Every event        *)
(* handler and every continuation of an async handler after an await is    *)
(* one action.  A handler closes over the state of the render it was       *)
(* created in; React re-renders after every discrete event, so a handler   *)
(* captures the state at the moment it is called, and an async handler or  *)
(* a timer callback keeps that captured state until it finishes.           *)
(*                                                                         *)
(* Arrays are sequences: JavaScript index k is sequence index k + 1.       *)
(* An optional value is a sequence of length 0 or 1.                       *)
(* Pixel data is symbolic: a buffer is named by the image it was drawn     *)
(* from and the size it was drawn at, statistics by the buffer they were   *)
(* extracted from, a processed image by the arguments of                   *)
(* processImageBuffer.                                                     *)
(*                                                                         *)
(* The colour engine itself (sRGB transfer, Oklab conversion, computeStats *)
(* and the arithmetic of processImageBuffer) is modelled a second time on  *)
(* concrete pixels, with JavaScript numbers as fixed-point integers of six *)
(* decimals.  EngineSpec runs it on small images: the statistics of a      *)
(* reference and of a target, processImageBuffer on the target, the        *)
(* statistics of the output, the colour-space round trip of one RGB        *)
(* triple, and resizeImageCanvas on one image.                             *)
(*                                                                         *)
(* LiveSpec is Spec with the awaits of the handlers settling.              *)
(* ThrottleSpec is the slider handling of the earlier revision             *)
(* (src/unnamed/part_000), which throttles with requestAnimationFrame and  *)
(* processingRef instead of the debounce timer.                            *)
(***************************************************************************)
EXTENDS Integers, Sequences, FiniteSets, TLC

\* ---- program constants ----
RESIZE_LONG_EDGE == 3000
PREVIEW_EDGE == 1000
DEFAULT_INTENSITY == 50
DEFAULT_SHADOW == 50

\* ---- bounds ----
\* MAX_TARGET_FILES is 10 in the source; the model keeps the same slicing
\* with a smaller limit.
MaxTargets == 2
\* number of user events (drops, clicks, slider moves) in one behaviour
MaxEvents == 5
\* number of async handler invocations suspended at an await at one time
MaxInFlight == 2

\* ---- inputs ----
\* kind: "ok" decodes; "badext" fails the extension check; "toolarge" fails
\* the size check; "corrupt" passes validation and fails in loadImage.
FileA == [name |-> "a.jpg", kind |-> "ok", width |-> 800, height |-> 600]
FileB == [name |-> "b.jpg", kind |-> "ok", width |-> 4000, height |-> 2000]
FileC == [name |-> "c.jpg", kind |-> "ok", width |-> 1, height |-> 5000]
FileX == [name |-> "x.txt", kind |-> "badext", width |-> 0, height |-> 0]
FileY == [name |-> "y.jpg", kind |-> "corrupt", width |-> 0, height |-> 0]
FileZ == [name |-> "z.jpg", kind |-> "toolarge", width |-> 0, height |-> 0]
ReferenceFiles == {<<FileA>>, <<FileB>>, <<FileX>>, <<FileY>>}
TargetFiles == {<<FileA>>, <<FileB, FileA>>, <<FileC>>, <<FileZ>>}
IntensityVals == {0, 100}
ShadowVals == {0, 100}

VARIABLES reference, targets, results, processStatus, errorMessage,
          imageCache, workerRef, timers, batches, downloads, selects,
          events, ev,
          \* colour engine exercised on concrete pixels (EngineSpec)
          heap, engine, conv, resizing,
          \* slider throttle of the earlier revision (ThrottleSpec)
          processingRef, frames

vars == <<reference, targets, results, processStatus, errorMessage,
          imageCache, workerRef, timers, batches, downloads, selects,
          events, ev, heap, engine, conv, resizing, processingRef, frames>>

\* ---- helpers ----
InFlight == Len(selects) + Len(batches) + Len(downloads)

Min(a, b) == IF a < b THEN a ELSE b

\* Math.round(x * (longEdge / y)) for positive integers
RoundDiv(x, longEdge, y) == (2 * x * longEdge + y) \div (2 * y)

\* ImageState built from a decoded file
ImageState(f) == [name |-> f.name, width |-> f.width, height |-> f.height]

resizeImageCanvas(img, longEdge) ==
    IF img.width > longEdge \/ img.height > longEdge
    THEN IF img.width > img.height
         THEN [name |-> img.name, width |-> longEdge,
               height |-> RoundDiv(img.height, longEdge, img.width)]
         ELSE [name |-> img.name,
               width |-> RoundDiv(img.width, longEdge, img.height),
               height |-> longEdge]
    ELSE [name |-> img.name, width |-> img.width, height |-> img.height]

\* ctx.getImageData(0, 0, width, height) throws IndexSizeError when either
\* side is 0
getImageDataThrows(canvas) == canvas.width = 0 \/ canvas.height = 0

\* statistics of the pixels of a canvas (symbolic)
computeStats(canvas) == [of |-> canvas]

\* processed image (symbolic): the output is a new value built from the
\* arguments; the input buffer is not part of the result's state
processImageBuffer(imgData, refStats, tgtStats, intensity, shadowStrength) ==
    [data |-> imgData, refStats |-> refStats, tgtStats |-> tgtStats,
     intensity |-> intensity, shadow |-> shadowStrength]

NotProcessing == [isProcessing |-> FALSE, message |-> "", progress |-> 0]

\* ---- colour engine: fixed-point arithmetic ----
\* A JavaScript number x is represented by the integer nearest to x * ONE.
\* Products and quotients are formed digit-wise in base BASE, so that every
\* intermediate value stays inside the range of the model checker's integers;
\* Mul and Div are exact up to truncation to 1 / ONE.
ONE == 1000000
BASE == 1000

Abs(x) == IF x < 0 THEN -x ELSE x

Sign(x) == IF x < 0 THEN -1 ELSE 1

Max(a, b) == IF a > b THEN a ELSE b

Mul(a, b) ==
    LET x == Abs(a)
        y == Abs(b)
        xh == x \div BASE
        xl == x % BASE
        yh == y \div BASE
        yl == y % BASE
    IN Sign(a) * Sign(b)
         * (xh * yh + (xh * yl + xl * yh + (xl * yl) \div BASE) \div BASE)

\* a / b for b > 0
Div(a, b) ==
    LET x == Abs(a)
        q == x \div b
        r == x % b
        d1 == (r * BASE) \div b
        r1 == (r * BASE) % b
        d2 == (r1 * BASE) \div b
    IN Sign(a) * (q * ONE + d1 * BASE + d2)

\* Math.round(v * 255) for a fixed-point v (round half up, as Math.round)
Round255(v) ==
    ((v \div BASE) * 255 + ((v % BASE) * 255 + ONE \div 2) \div BASE) \div BASE

Cube(x) == Mul(Mul(x, x), x)

RECURSIVE CbrtSearch(_, _, _)
CbrtSearch(x, lo, hi) ==
    IF hi - lo <= 1 THEN hi
    ELSE LET mid == (lo + hi) \div 2
         IN IF Cube(mid) >= x THEN CbrtSearch(x, lo, mid)
            ELSE CbrtSearch(x, mid, hi)

\* Math.cbrt(x) for 0 <= x <= 8: the least y with y^3 >= x
Math_cbrt(x) == CbrtSearch(x, -1, 2 * ONE)

RECURSIVE SqrtSearch(_, _, _)
SqrtSearch(x, lo, hi) ==
    IF hi - lo <= 1 THEN hi
    ELSE LET mid == (lo + hi) \div 2
         IN IF Mul(mid, mid) >= x THEN SqrtSearch(x, lo, mid)
            ELSE SqrtSearch(x, mid, hi)

\* Math.sqrt(x) for 0 <= x <= 4: the least y with y^2 >= x
Math_sqrt(x) == SqrtSearch(x, -1, 2 * ONE)

\* ---- colour engine: sRGB transfer and Oklab ----
\* TABLE_sRGBToLinear[i + 1] is the table entry of 8-bit value i.
TABLE_sRGBToLinear == <<
    0, 304, 607, 911, 1214, 1518, 1821, 2125, 2428, 2732, 3035, 3347, 3677,
    4025, 4391, 4777, 5182, 5605, 6049, 6512, 6995, 7499, 8023, 8568, 9134,
    9721, 10330, 10960, 11612, 12286, 12983, 13702, 14444, 15209, 15996,
    16807, 17642, 18500, 19382, 20289, 21219, 22174, 23153, 24158, 25187,
    26241, 27321, 28426, 29557, 30713, 31896, 33105, 34340, 35601, 36889,
    38204, 39546, 40915, 42311, 43735, 45186, 46665, 48172, 49707, 51269,
    52861, 54480, 56128, 57805, 59511, 61246, 63010, 64803, 66626, 68478,
    70360, 72272, 74214, 76185, 78187, 80220, 82283, 84376, 86500, 88656,
    90842, 93059, 95307, 97587, 99899, 102242, 104616, 107023, 109462,
    111932, 114435, 116971, 119538, 122139, 124772, 127438, 130136, 132868,
    135633, 138432, 141263, 144128, 147027, 149960, 152926, 155926, 158961,
    162029, 165132, 168269, 171441, 174647, 177888, 181164, 184475, 187821,
    191202, 194618, 198069, 201556, 205079, 208637, 212231, 215861, 219526,
    223228, 226966, 230740, 234551, 238398, 242281, 246201, 250158, 254152,
    258183, 262251, 266356, 270498, 274677, 278894, 283149, 287441, 291771,
    296138, 300544, 304987, 309469, 313989, 318547, 323143, 327778, 332452,
    337164, 341914, 346704, 351533, 356400, 361307, 366253, 371238, 376262,
    381326, 386429, 391572, 396755, 401978, 407240, 412543, 417885, 423268,
    428690, 434154, 439657, 445201, 450786, 456411, 462077, 467784, 473531,
    479320, 485150, 491021, 496933, 502886, 508881, 514918, 520996, 527115,
    533276, 539479, 545724, 552011, 558340, 564712, 571125, 577580, 584078,
    590619, 597202, 603827, 610496, 617207, 623960, 630757, 637597, 644480,
    651406, 658375, 665387, 672443, 679542, 686685, 693872, 701102, 708376,
    715693, 723055, 730461, 737910, 745404, 752942, 760525, 768151, 775822,
    783538, 791298, 799103, 806952, 814847, 822786, 830770, 838799, 846873,
    854993, 863157, 871367, 879622, 887923, 896269, 904661, 913099, 921582,
    930111, 938686, 947307, 955973, 964686, 973445, 982251, 991102, 1000000 >>

sRGBToLinear(x) == TABLE_sRGBToLinear[x + 1]

\* For x > 0.0031308 the value 1.055 * x^(1/2.4) - 0.055 grows with x, and
\* Math.round(Math.min(255, val * 255)) is the number of levels i in 1..255
\* with val * 255 >= i - 0.5.  SRGB_LEVEL[i] is the least x that reaches
\* level i, that is ((i - 0.5) / 255 + 0.055) / 1.055 to the power 2.4.
SRGB_LEVEL == <<
    152, 456, 759, 1063, 1366, 1670, 1973, 2277, 2580, 2884, 3189, 3510,
    3849, 4206, 4582, 4977, 5392, 5825, 6278, 6752, 7245, 7759, 8294, 8849,
    9425, 10023, 10643, 11284, 11947, 12632, 13340, 14071, 14824, 15600,
    16399, 17222, 18069, 18939, 19833, 20751, 21694, 22661, 23653, 24670,
    25711, 26778, 27871, 28989, 30132, 31302, 32498, 33719, 34968, 36243,
    37544, 38872, 40228, 41610, 43020, 44458, 45923, 47415, 48936, 50485,
    52062, 53667, 55301, 56964, 58655, 60376, 62125, 63903, 65711, 67549,
    69416, 71313, 73239, 75196, 77183, 79200, 81248, 83326, 85435, 87575,
    89745, 91947, 94180, 96444, 98740, 101067, 103426, 105816, 108239,
    110694, 113180, 115699, 118251, 120835, 123452, 126101, 128783, 131499,
    134247, 137029, 139844, 142692, 145574, 148490, 151439, 154423, 157440,
    160491, 163577, 166697, 169851, 173040, 176264, 179522, 182816, 186144,
    189507, 192906, 196340, 199809, 203314, 206854, 210430, 214042, 217689,
    221373, 225093, 228849, 232641, 236470, 240335, 244237, 248176, 252151,
    256163, 260213, 264299, 268423, 272583, 276782, 281017, 285291, 289602,
    293950, 298337, 302761, 307224, 311725, 316263, 320841, 325456, 330110,
    334803, 339535, 344305, 349114, 353962, 358849, 363775, 368741, 373745,
    378790, 383873, 388996, 394159, 399362, 404605, 409887, 415209, 420572,
    425975, 431418, 436901, 442425, 447989, 453594, 459239, 464926, 470653,
    476421, 482230, 488081, 493972, 499905, 505879, 511895, 517952, 524051,
    530191, 536373, 542597, 548863, 555171, 561521, 567913, 574348, 580825,
    587344, 593905, 600510, 607157, 613846, 620579, 627354, 634172, 641033,
    647938, 654885, 661876, 668910, 675988, 683109, 690274, 697482, 704734,
    712030, 719369, 726753, 734181, 741652, 749168, 756728, 764333, 771982,
    779675, 787413, 795195, 803022, 810894, 818811, 826773, 834779, 842831,
    850928, 859070, 867257, 875490, 883768, 892091, 900460, 908875, 917335,
    925841, 934393, 942991, 951635, 960325, 969060, 977843, 986671, 995546 >>

\* Variant without Math.max(0, ...).
linearToSRGBNoFloor(x) ==
    IF x <= 3130
    THEN Min(255, Round255(Mul(x, 12920000)))
    ELSE Cardinality({i \in 1..255 : x >= SRGB_LEVEL[i]})

linearToSRGB(x) ==
    IF x <= 3130
    THEN Min(255, Max(0, Round255(Mul(x, 12920000))))
    ELSE Cardinality({i \in 1..255 : x >= SRGB_LEVEL[i]})

RGB_TO_LMS == << <<412221, 536333, 51446>>,
                 <<211903, 680700, 107397>>,
                 <<88302, 281719, 629979>> >>

LMS_TO_LAB == << <<210454, 793618, -4072>>,
                 <<1977998, -2428592, 450594>>,
                 <<25904, 782772, -808676>> >>

LAB_TO_LMS == << <<1000000, 396338, 215804>>,
                 <<1000000, -105561, -63854>>,
                 <<1000000, -89484, -1291486>> >>

LMS_TO_RGB == << <<4076742, -3307712, 230970>>,
                 <<-1268438, 2609757, -341319>>,
                 <<-4196, -703419, 1707615>> >>

Row(m, v) == Mul(m[1], v[1]) + Mul(m[2], v[2]) + Mul(m[3], v[3])

MatVec(M, v) == <<Row(M[1], v), Row(M[2], v), Row(M[3], v)>>

\* Variant without the cube root of step 3.
rgb2oklabNoCbrt(rgb) ==
    LET lin == <<sRGBToLinear(rgb[1]), sRGBToLinear(rgb[2]), sRGBToLinear(rgb[3])>>
    IN MatVec(LMS_TO_LAB, MatVec(RGB_TO_LMS, lin))

rgb2oklab(rgb) ==
    LET lin == <<sRGBToLinear(rgb[1]), sRGBToLinear(rgb[2]), sRGBToLinear(rgb[3])>>
        lms == MatVec(RGB_TO_LMS, lin)
    IN MatVec(LMS_TO_LAB, <<Math_cbrt(lms[1]), Math_cbrt(lms[2]), Math_cbrt(lms[3])>>)

\* linear RGB of an Oklab colour (steps 1 to 3 of oklab2rgb)
oklab2linear(lab) ==
    LET lms == MatVec(LAB_TO_LMS, lab)
    IN MatVec(LMS_TO_RGB, <<Cube(lms[1]), Cube(lms[2]), Cube(lms[3])>>)

oklab2rgb(lab) ==
    LET lin == oklab2linear(lab)
    IN <<linearToSRGB(lin[1]), linearToSRGB(lin[2]), linearToSRGB(lin[3])>>

\* ---- colour engine: computeStats on pixel data ----
\* A pixel is <<r, g, b>>; the alpha byte is copied unchanged and left out.
RECURSIVE SumOf(_)
SumOf(vals) == IF Len(vals) = 0 THEN 0 ELSE vals[1] + SumOf(Tail(vals))

Channel(labs, c) == [k \in 1..Len(labs) |-> labs[k][c]]

MeanOf(vals) == LET s == SumOf(vals) IN Sign(s) * (Abs(s) \div Len(vals))

StdOf(vals) ==
    LET mean == MeanOf(vals)
        sq == [k \in 1..Len(vals) |-> Mul(vals[k] - mean, vals[k] - mean)]
    IN Math_sqrt(SumOf(sq) \div Len(vals))

SENTINEL_STATS == [mean |-> <<0, 0, 0>>, std |-> <<ONE, ONE, ONE>>]

\* the body of computeStats after getImageData has returned the pixels
computeStatsData(data) ==
    LET labs == [k \in 1..Len(data) |-> rgb2oklab(data[k])]
    IN IF Len(data) = 0 THEN SENTINEL_STATS
       ELSE [mean |-> <<MeanOf(Channel(labs, 1)), MeanOf(Channel(labs, 2)),
                        MeanOf(Channel(labs, 3))>>,
             std |-> <<StdOf(Channel(labs, 1)), StdOf(Channel(labs, 2)),
                       StdOf(Channel(labs, 3))>>]

\* ---- colour engine: processImageBuffer on pixel data ----
SCALE_CAP == 3 * ONE
REF_STD_CAP == 180000
STD_EPSILON == 10000
BLEND_STD == 950000
BLEND_MEAN_L == 800000
BLEND_MEAN_C == 800000
CONTRAST_LIFT == 1100000
CRUSH_CUTOFF == 650000

\* k = intensity / 114.0
InterpolationFactor(intensity) == (intensity * ONE) \div 114

\* Math.max(0, 1.0 - (shadowStrength / 100.0) * 1.4)
crushMinFactor(shadowStrength) == Max(0, ONE - shadowStrength * 14000)

effectiveRefStd(refStd) == Min(refStd, REF_STD_CAP)

rawScale(refStd, tgtStd) ==
    IF tgtStd > STD_EPSILON
    THEN Min(SCALE_CAP, Div(effectiveRefStd(refStd), tgtStd))
    ELSE ONE

scale_std(refStd, tgtStd) == ONE + Mul(rawScale(refStd, tgtStd) - ONE, BLEND_STD)

\* A_L, A_a, A_b and B_L, B_a, B_b
Coefficients(refStats, tgtStats, intensity) ==
    LET k == InterpolationFactor(intensity)
        sc == [c \in 1..3 |-> scale_std(refStats.std[c], tgtStats.std[c])]
        blend == <<BLEND_MEAN_L, BLEND_MEAN_C, BLEND_MEAN_C>>
    IN [raw |-> [c \in 1..3 |-> rawScale(refStats.std[c], tgtStats.std[c])],
        A |-> [c \in 1..3 |-> ONE + Mul(sc[c] - ONE, k)],
        B |-> [c \in 1..3 |->
                 Mul(Mul(refStats.mean[c] - Mul(tgtStats.mean[c], sc[c]), k),
                     blend[c])]]

\* Variant without the highlight branch.
maskWeightNoHighlight(l) ==
    IF l < 80000 THEN Max(0, (l * 125) \div 10) ELSE ONE

\* weight of the luminance mask for the original lightness l
maskWeight(l) ==
    IF l > 900000 THEN Max(0, ONE - (l - 900000) * 10)
    ELSE IF l < 80000 THEN Max(0, (l * 125) \div 10)
    ELSE ONE

\* one iteration of the pixel loop; the record keeps the loop's locals
processPixel(rgb, co, crushMin) ==
    LET lab == rgb2oklab(rgb)
        l_lin == Mul(lab[1], co.A[1]) + co.B[1]
        a_new_raw == Mul(lab[2], co.A[2]) + co.B[2]
        b_new_raw == Mul(lab[3], co.A[3]) + co.B[3]
        lifted == Mul(l_lin - ONE \div 2, CONTRAST_LIFT) + ONE \div 2
        curved == lifted < CRUSH_CUTOFF
        crush == crushMin + Mul(Div(lifted, CRUSH_CUTOFF), ONE - crushMin)
        l_new == IF curved THEN Mul(lifted, crush) ELSE lifted
        weight == maskWeight(lab[1])
        a_final == lab[2] + Mul(a_new_raw - lab[2], weight)
        b_final == lab[3] + Mul(b_new_raw - lab[3], weight)
    IN [rgb |-> rgb, lab |-> lab, lifted |-> lifted, curved |-> curved,
        crush |-> IF curved THEN crush ELSE ONE, l_new |-> l_new,
        weight |-> weight, raw |-> <<a_new_raw, b_new_raw>>,
        final |-> <<a_final, b_final>>,
        lin |-> oklab2linear(<<l_new, a_final, b_final>>),
        out |-> oklab2rgb(<<l_new, a_final, b_final>>)]

RECURSIVE PixelLoop(_, _, _)
PixelLoop(data, co, crushMin) ==
    IF Len(data) = 0 THEN <<>>
    ELSE <<processPixel(data[1], co, crushMin)>> \o PixelLoop(Tail(data), co, crushMin)

\* the pixel loop over the cloned data
processImageData(data, refStats, tgtStats, intensity, shadowStrength) ==
    PixelLoop(data, Coefficients(refStats, tgtStats, intensity),
              crushMinFactor(shadowStrength))

\* Variant that writes into the input's array instead of a copy.
NewImageDataAliased(h, src, outData) ==
    [heap |-> [h EXCEPT ![src].data = outData], out |-> src]

\* new ImageData(new Uint8ClampedArray(data), width, height), filled by the
\* loop: a fresh buffer in the heap h
NewImageData(h, src, outData) ==
    [heap |-> Append(h, [width |-> h[src].width, height |-> h[src].height,
                         data |-> outData]),
     out |-> Len(h) + 1]

\* ---- colour engine: inputs ----
ImageBlack == [width |-> 1, height |-> 1, data |-> << <<0, 0, 0>> >>]
ImageWhite == [width |-> 1, height |-> 1, data |-> << <<255, 255, 255>> >>]
\* uniform mid-grey
ImageMidGrey == [width |-> 2, height |-> 1,
                 data |-> << <<128, 128, 128>>, <<128, 128, 128>> >>]
ImageGrey == [width |-> 2, height |-> 1,
              data |-> << <<130, 130, 130>>, <<160, 160, 160>> >>]
ImageBlue == [width |-> 2, height |-> 1,
              data |-> << <<0, 0, 0>>, <<0, 0, 255>> >>]
ImageContrast == [width |-> 2, height |-> 1,
                  data |-> << <<30, 30, 30>>, <<255, 255, 255>> >>]
ImageColour == [width |-> 2, height |-> 1,
                data |-> << <<200, 50, 50>>, <<20, 40, 200>> >>]
\* the preview canvas of c.jpg (1 x 5000): width Math.round(0.2) = 0
ImageEmpty ==
    LET c == resizeImageCanvas(ImageState(FileC), PREVIEW_EDGE)
    IN [width |-> c.width, height |-> c.height, data |-> <<>>]
EngineImages == {ImageBlack, ImageWhite, ImageMidGrey, ImageGrey, ImageBlue,
                 ImageContrast, ImageColour, ImageEmpty}
EngineIntensities == {0, DEFAULT_INTENSITY, 100}
EngineShadows == {0, DEFAULT_SHADOW, 100}
ChannelSamples == {0, 1, 11, 128, 200, 254, 255}
RGBSamples == {<<r, g, b>> : r \in ChannelSamples, g \in ChannelSamples,
                             b \in ChannelSamples}

EngineIdle == [stage |-> "idle", ref |-> 0, tgt |-> 0, intensity |-> 0,
               shadowStrength |-> 0, refStats |-> <<>>, tgtStats |-> <<>>,
               trace |-> <<>>, out |-> 0, outStats |-> <<>>]

ConvIdle == [stage |-> "idle", rgb |-> <<0, 0, 0>>, lab |-> <<0, 0, 0>>,
             back |-> <<0, 0, 0>>]

\* sides and long edges resizeImageCanvas is run on
ResizeSides == {1, 2, 3, 5, 7, 800, 1000, 3000, 5000}
ResizeEdges == {1, 2, 3, PREVIEW_EDGE, RESIZE_LONG_EDGE}

ResizeIdle == [stage |-> "idle", img |-> [name |-> "", width |-> 0, height |-> 0],
               longEdge |-> 0,
               out |-> [name |-> "", width |-> 0, height |-> 0]]

\* the controller right after construction
ControllerStart ==
    /\ reference = <<>>
    /\ targets = <<>>
    /\ results = <<>>
    /\ processStatus = NotProcessing
    /\ errorMessage = ""
    /\ imageCache = <<>>
    /\ workerRef = <<>>
    /\ timers = {}
    /\ batches = <<>>
    /\ downloads = <<>>
    /\ selects = <<>>
    /\ events = 0
    /\ ev = [op |-> "init", id |-> -1]

Init ==
    /\ ControllerStart
    /\ heap = <<>>
    /\ engine = EngineIdle
    /\ conv = ConvIdle
    /\ resizing = ResizeIdle
    /\ processingRef = <<>>
    /\ frames = <<>>

\* ---- performReset ----
\* The reset button is in the results bar; handleResetClick opens the modal
\* when a reference or a target exists, and the modal button resets.
performReset ==
    /\ events < MaxEvents
    /\ Len(results) > 0
    /\ Len(reference) > 0 \/ Len(targets) > 0
    /\ reference' = <<>>
    /\ targets' = <<>>
    /\ results' = <<>>
    /\ processStatus' = NotProcessing
    /\ errorMessage' = ""
    /\ imageCache' = <<>>
    /\ events' = events + 1
    /\ ev' = [op |-> "reset", id |-> -1]
    /\ UNCHANGED <<heap, engine, conv, resizing, processingRef, frames,
                   workerRef, timers, batches, downloads, selects>>

\* ---- handleFileSelect ----
\* Synchronous part up to the first await.  The closure's errorMessage is
\* the value of the render the handler belongs to.
HasUnsupported(files) == \E k \in 1..Len(files) : files[k].kind = "badext"

SelectStart(type, files) ==
    /\ events < MaxEvents
    /\ InFlight < MaxInFlight
    /\ errorMessage' = IF HasUnsupported(files) THEN "msgInvalidExt" ELSE ""
    /\ processStatus' = [isProcessing |-> TRUE,
                         message |-> IF type = "reference" THEN "statusAnalyzing"
                                     ELSE "statusProcessing",
                         progress |-> 0]
    /\ selects' = Append(selects, [type |-> type, files |-> files,
                                   errorMessage |-> errorMessage])
    /\ events' = events + 1
    /\ ev' = [op |-> "select", id |-> -1]
    /\ UNCHANGED <<heap, engine, conv, resizing, processingRef, frames,
                   reference, targets, results, imageCache, workerRef, timers,
                   batches, downloads>>

handleFileSelectReference == \E files \in ReferenceFiles : SelectStart("reference", files)

handleFileSelectTarget == \E files \in TargetFiles : SelectStart("target", files)

\* validateAndProcessFile: null for a bad extension or an oversized file
Validated(f) == f.kind \in {"ok", "corrupt"}

\* loadImage resolves with non-zero dimensions
Loads(f) == f.kind = "ok" /\ f.width # 0 /\ f.height # 0

RemoveAt(seq, k) == SubSeq(seq, 1, k - 1) \o SubSeq(seq, k + 1, Len(seq))

Take(seq, n) == SubSeq(seq, 1, Min(n, Len(seq)))

RECURSIVE LoadedTargets(_)
LoadedTargets(files) ==
    IF files = <<>> THEN <<>>
    ELSE (IF Validated(Head(files)) /\ Loads(Head(files))
          THEN <<ImageState(Head(files))>> ELSE <<>>) \o LoadedTargets(Tail(files))

FailedLoads(files) == \E k \in 1..Len(files) : Validated(files[k]) /\ ~Loads(files[k])

\* Mutant: the branch for a rejected file returns without clearing the
\* processing flag
SelectReferenceDoneKeepsFlag(k) ==
    LET s == selects[k]
        f == s.files[1]
    IN  /\ s.type = "reference"
        /\ IF ~Validated(f)
           THEN /\ errorMessage' = IF s.errorMessage = "" THEN "msgTooLarge"
                                   ELSE errorMessage
                /\ UNCHANGED reference
           ELSE IF Loads(f)
                THEN /\ reference' = <<ImageState(f)>>
                     /\ UNCHANGED errorMessage
                ELSE /\ errorMessage' = "msgLoadFail"
                     /\ UNCHANGED reference
        /\ processStatus' = IF ~Validated(f) THEN processStatus ELSE NotProcessing
        /\ selects' = RemoveAt(selects, k)
        /\ ev' = [op |-> "selectDone", id |-> -1]
        /\ UNCHANGED <<heap, engine, conv, resizing, processingRef, frames,
                       targets, results, imageCache, workerRef, timers, batches,
                       downloads, events>>

\* Continuation of the reference branch after validateAndProcessFile and
\* loadImage
SelectReferenceDone(k) ==
    LET s == selects[k]
        f == s.files[1]
    IN  /\ s.type = "reference"
        /\ IF ~Validated(f)
           THEN /\ errorMessage' = IF s.errorMessage = "" THEN "msgTooLarge"
                                   ELSE errorMessage
                /\ UNCHANGED reference
           ELSE IF Loads(f)
                THEN /\ reference' = <<ImageState(f)>>
                     /\ UNCHANGED errorMessage
                ELSE /\ errorMessage' = "msgLoadFail"
                     /\ UNCHANGED reference
        /\ processStatus' = NotProcessing
        /\ selects' = RemoveAt(selects, k)
        /\ ev' = [op |-> "selectDone", id |-> -1]
        /\ UNCHANGED <<heap, engine, conv, resizing, processingRef, frames,
                       targets, results, imageCache, workerRef, timers, batches,
                       downloads, events>>

\* Continuation of the target branch after the last file was loaded
SelectTargetDone(k) ==
    LET s == selects[k]
        candidates == Take(s.files, MaxTargets)
        newTargets == LoadedTargets(candidates)
        failed == FailedLoads(candidates)
        afterFailed == IF failed
                       THEN IF errorMessage # "" THEN errorMessage \o " | msgLoadFail"
                            ELSE "msgLoadFail"
                       ELSE errorMessage
    IN  /\ s.type = "target"
        /\ IF newTargets = <<>> /\ Len(s.files) > 0 /\ ~failed /\ ~HasUnsupported(s.files)
           THEN /\ errorMessage' = IF s.errorMessage = "" THEN "msgNoValid"
                                   ELSE afterFailed
                /\ UNCHANGED targets
           ELSE /\ errorMessage' = afterFailed
                /\ targets' = Take(targets \o newTargets, MaxTargets)
        /\ processStatus' = NotProcessing
        /\ selects' = RemoveAt(selects, k)
        /\ ev' = [op |-> "selectDone", id |-> -1]
        /\ UNCHANGED <<heap, engine, conv, resizing, processingRef, frames,
                       reference, results, imageCache, workerRef, timers, batches,
                       downloads, events>>

handleFileSelectDone ==
    \E k \in 1..Len(selects) : SelectReferenceDone(k) \/ SelectTargetDone(k)

\* ---- executeColorTransfer ----
\* Math.round((i / n) * scale)
RoundFrac(i, n, scale) == (2 * i * scale + n) \div (2 * n)

\* The body of the for loop for JavaScript index i of the closure's targets,
\* up to the await at its end: the cache entry, the result pushed, or the
\* throw of getImageData inside computeStats.
BatchIteration(b, i) ==
    LET previewResized == resizeImageCanvas(b.targets[i + 1], PREVIEW_EDGE)
        tgtStats == computeStats(previewResized)
        processed == processImageBuffer(previewResized, b.refStats, tgtStats,
                                        DEFAULT_INTENSITY, DEFAULT_SHADOW)
    IN  [throws |-> getImageDataThrows(previewResized),
         entry |-> [ctx |-> previewResized, width |-> previewResized.width,
                    height |-> previewResized.height, tgtStats |-> tgtStats,
                    refStats |-> b.refStats],
         result |-> [name |-> b.targets[i + 1].name, resultUrl |-> processed,
                     intensity |-> DEFAULT_INTENSITY, shadow |-> DEFAULT_SHADOW,
                     id |-> i]]

\* Mutant: no await at the end of the loop body; the next image is processed
\* in the same turn
BatchStepNoYield(b, k, cache) ==
    LET it == BatchIteration(b, b.i)
        more == ~it.throws /\ b.i + 1 < Len(b.targets)
                /\ ~BatchIteration(b, b.i + 1).throws
        it2 == BatchIteration(b, b.i + 1)
    IN  IF it.throws
        THEN /\ errorMessage' = "Processing failed."
             /\ processStatus' = NotProcessing
             /\ imageCache' = cache
             /\ batches' = IF k = 0 THEN batches ELSE RemoveAt(batches, k)
        ELSE /\ processStatus' = [isProcessing |-> TRUE, message |-> "statusProcessing",
                                  progress |-> 10 + RoundFrac(b.i, Len(b.targets), 85)]
             /\ imageCache' = IF more
                              THEN (b.i + 1 :> it2.entry) @@ (b.i :> it.entry) @@ cache
                              ELSE (b.i :> it.entry) @@ cache
             /\ batches' = LET nb == [b EXCEPT
                                       !.i = IF more THEN b.i + 2 ELSE b.i + 1,
                                       !.newResults =
                                           IF more THEN b.newResults \o <<it.result, it2.result>>
                                           ELSE Append(b.newResults, it.result)]
                           IN  IF k = 0 THEN Append(batches, nb)
                               ELSE [batches EXCEPT ![k] = nb]
             /\ UNCHANGED errorMessage

\* State changes of one loop iteration of batch b (not yet in batches when
\* k = 0), on top of cache, the cache as the iteration finds it.
BatchStep(b, k, cache) ==
    LET it == BatchIteration(b, b.i)
    IN  IF it.throws
        THEN /\ errorMessage' = "Processing failed."
             /\ processStatus' = NotProcessing
             /\ imageCache' = cache
             /\ batches' = IF k = 0 THEN batches ELSE RemoveAt(batches, k)
        ELSE /\ processStatus' = [isProcessing |-> TRUE, message |-> "statusProcessing",
                                  progress |-> 10 + RoundFrac(b.i, Len(b.targets), 85)]
             /\ imageCache' = (b.i :> it.entry) @@ cache
             /\ batches' = LET nb == [b EXCEPT !.i = b.i + 1,
                                               !.newResults = Append(b.newResults, it.result)]
                           IN  IF k = 0 THEN Append(batches, nb)
                               ELSE [batches EXCEPT ![k] = nb]
             /\ UNCHANGED errorMessage

\* Click on the Adjust button: everything up to the first await, which is
\* the end of the first loop iteration.
executeColorTransfer ==
    /\ events < MaxEvents
    /\ InFlight < MaxInFlight
    /\ Len(reference) > 0 /\ Len(targets) > 0 /\ ~processStatus.isProcessing
    /\ LET refResized == resizeImageCanvas(reference[1], RESIZE_LONG_EDGE)
           b == [reference |-> reference[1], targets |-> targets,
                 refStats |-> computeStats(refResized), i |-> 0, newResults |-> <<>>]
       IN  IF getImageDataThrows(refResized)
           THEN /\ errorMessage' = "Processing failed."
                /\ processStatus' = NotProcessing
                /\ imageCache' = <<>>
                /\ UNCHANGED batches
           ELSE BatchStep(b, 0, <<>>)
    /\ events' = events + 1
    /\ ev' = [op |-> IF getImageDataThrows(resizeImageCanvas(reference[1], RESIZE_LONG_EDGE))
                        \/ BatchIteration([targets |-> targets, refStats |-> <<>>], 0).throws
                     THEN "adjustFail" ELSE "adjust",
              id |-> 0]
    /\ UNCHANGED <<heap, engine, conv, resizing, processingRef, frames,
                   reference, targets, results, workerRef, timers, downloads, selects>>

\* Continuation after the 20 ms yield: the next loop iteration
executeColorTransferNext ==
    \E k \in 1..Len(batches) :
        /\ batches[k].i < Len(batches[k].targets)
        /\ BatchStep(batches[k], k, imageCache)
        /\ ev' = [op |-> IF BatchIteration(batches[k], batches[k].i).throws
                         THEN "batchFail" ELSE "batchStep",
                  id |-> batches[k].i]
        /\ UNCHANGED <<heap, engine, conv, resizing, processingRef, frames,
                       reference, targets, results, workerRef, timers, downloads,
                       selects, events>>

\* Continuation after the last yield: the loop is over
executeColorTransferDone ==
    \E k \in 1..Len(batches) :
        /\ batches[k].i = Len(batches[k].targets)
        /\ results' = batches[k].newResults
        /\ processStatus' = [isProcessing |-> FALSE, message |-> "statusDone",
                             progress |-> 100]
        /\ batches' = RemoveAt(batches, k)
        /\ ev' = [op |-> "batchDone", id |-> -1]
        /\ UNCHANGED <<heap, engine, conv, resizing, processingRef, frames,
                       reference, targets, errorMessage, imageCache, workerRef, timers,
                       downloads, selects, events>>

\* ---- handleIntensityChange / handleShadowChange ----
\* results.find(r => r.id === id) as an optional value
FindResult(rs, id) == SelectSeq(rs, LAMBDA r : r.id = id)

\* handles returned by setTimeout are never reused while still referenced
FreshHandle ==
    CHOOSE h \in 1..(Cardinality(timers) + Cardinality(DOMAIN workerRef) + 1) :
        /\ \A t \in timers : t.h # h
        /\ \A id \in DOMAIN workerRef : workerRef[id] # h

\* Mutant: the pending callback is not cancelled
clearTimeoutOmitted(id) == timers

\* if (workerRef.current[id]) clearTimeout(workerRef.current[id])
clearTimeout(id) ==
    IF id \in DOMAIN workerRef THEN {t \in timers : t.h # workerRef[id]} ELSE timers

\* The debounced callback as scheduled: what it closes over
Scheduled(kind, id, val) ==
    [h |-> FreshHandle, kind |-> kind, id |-> id, val |-> val,
     target |-> id + 1 <= Len(targets),
     resInfo |-> FindResult(results, id)]

SetParam(kind, id, val) ==
    [k \in 1..Len(results) |->
        IF results[k].id = id
        THEN IF kind = "intensity" THEN [results[k] EXCEPT !.intensity = val]
             ELSE [results[k] EXCEPT !.shadow = val]
        ELSE results[k]]

ParamChange(kind, id, val) ==
    /\ events < MaxEvents
    /\ id + 1 <= Len(results)
    /\ results' = SetParam(kind, id, val)
    /\ LET t == Scheduled(kind, id, val)
       IN  /\ timers' = clearTimeout(id) \cup {t}
           /\ workerRef' = (id :> t.h) @@ workerRef
    /\ events' = events + 1
    /\ ev' = [op |-> kind, id |-> id]
    /\ UNCHANGED <<heap, engine, conv, resizing, processingRef, frames,
                   reference, targets, processStatus, errorMessage, imageCache,
                   batches, downloads, selects>>

handleIntensityChange ==
    \E id \in 0..(MaxTargets - 1), val \in IntensityVals : ParamChange("intensity", id, val)

\* The shadow slider's markup is commented out in this revision; the handler
\* is kept and is modelled as callable for every displayed result.
handleShadowChange ==
    \E id \in 0..(MaxTargets - 1), val \in ShadowVals : ParamChange("shadow", id, val)

\* Parameters the callback passes to processImageBuffer
TimerIntensity(t) ==
    IF t.kind = "intensity" THEN t.val
    ELSE IF t.resInfo = <<>> THEN DEFAULT_INTENSITY ELSE t.resInfo[1].intensity

TimerShadow(t) ==
    IF t.kind = "shadow" THEN t.val
    ELSE IF t.resInfo = <<>> THEN DEFAULT_SHADOW ELSE t.resInfo[1].shadow

\* if (!target || !imageCache.current[id]) return
TimerReturnsEarly(t) == ~t.target \/ t.id \notin DOMAIN imageCache

\* Mutant: the recomputation starts from the image on display instead of
\* the cached original
ReprocessedFromDisplayed(t) ==
    LET c == imageCache[t.id]
        shown == FindResult(results, t.id)
    IN  processImageBuffer(IF shown = <<>> THEN c.ctx ELSE shown[1].resultUrl,
                           c.refStats, c.tgtStats, TimerIntensity(t), TimerShadow(t))

Reprocessed(t) ==
    LET c == imageCache[t.id]
    IN  processImageBuffer(c.ctx, c.refStats, c.tgtStats, TimerIntensity(t), TimerShadow(t))

\* Mutant: the processed pixels are put on the cached preview context
\* instead of a new canvas
TimerFireOntoCache(t) ==
    /\ timers' = timers \ {t}
    /\ IF TimerReturnsEarly(t)
       THEN UNCHANGED <<results, imageCache>>
       ELSE /\ results' = [k \in 1..Len(results) |->
                              IF results[k].id = t.id
                              THEN [results[k] EXCEPT !.resultUrl = Reprocessed(t)]
                              ELSE results[k]]
            /\ imageCache' = [imageCache EXCEPT ![t.id].ctx = Reprocessed(t)]
    /\ ev' = [op |-> IF t.id \notin DOMAIN imageCache THEN "timerMiss"
                     ELSE IF ~t.target THEN "timerNoTarget" ELSE "timerFire",
              id |-> t.id]
    /\ UNCHANGED <<heap, engine, conv, resizing, processingRef, frames,
                   reference, targets, processStatus, errorMessage,
                   workerRef, batches, downloads, selects, events>>

\* The setTimeout callback runs, 100 ms after it was scheduled
TimerFire(t) ==
    /\ timers' = timers \ {t}
    /\ IF TimerReturnsEarly(t)
       THEN UNCHANGED results
       ELSE results' = [k \in 1..Len(results) |->
                           IF results[k].id = t.id
                           THEN [results[k] EXCEPT !.resultUrl = Reprocessed(t)]
                           ELSE results[k]]
    /\ ev' = [op |-> IF t.id \notin DOMAIN imageCache THEN "timerMiss"
                     ELSE IF ~t.target THEN "timerNoTarget" ELSE "timerFire",
              id |-> t.id]
    /\ UNCHANGED <<heap, engine, conv, resizing, processingRef, frames,
                   reference, targets, processStatus, errorMessage, imageCache,
                   workerRef, batches, downloads, selects, events>>

debounceTimeout == \E t \in timers : TimerFire(t)

\* ---- handleDownloadZip ----
\* Mutant: the export resizes to the preview edge
ExportIterationPreview(refStats, i) ==
    LET tgtResized == resizeImageCanvas(targets[i + 1], PREVIEW_EDGE)
        tgtStats == computeStats(tgtResized)
    IN  [throws |-> i + 1 > Len(results) \/ getImageDataThrows(tgtResized),
         file |-> [name |-> targets[i + 1].name,
                   data |-> processImageBuffer(tgtResized, refStats, tgtStats,
                               IF i + 1 > Len(results) THEN 0 ELSE results[i + 1].intensity,
                               DEFAULT_SHADOW)]]

\* One loop iteration of the export for JavaScript index i
ExportIteration(refStats, i) ==
    LET tgtResized == resizeImageCanvas(targets[i + 1], RESIZE_LONG_EDGE)
        tgtStats == computeStats(tgtResized)
    IN  [throws |-> i + 1 > Len(results) \/ getImageDataThrows(tgtResized),
         file |-> [name |-> targets[i + 1].name,
                   data |-> processImageBuffer(tgtResized, refStats, tgtStats,
                               IF i + 1 > Len(results) THEN 0 ELSE results[i + 1].intensity,
                               DEFAULT_SHADOW)]]

\* Click on the download button: the whole loop runs without an await; the
\* first await is zip.generateAsync.
handleDownloadZip ==
    /\ events < MaxEvents
    /\ InFlight < MaxInFlight
    /\ Len(results) > 0 /\ ~processStatus.isProcessing
    /\ Len(reference) > 0 /\ Len(targets) > 0
    /\ LET refResized == resizeImageCanvas(reference[1], RESIZE_LONG_EDGE)
           refStats == computeStats(refResized)
           its == [i \in 0..(Len(targets) - 1) |-> ExportIteration(refStats, i)]
       IN  IF getImageDataThrows(refResized) \/ \E i \in DOMAIN its : its[i].throws
           THEN /\ errorMessage' = "msgZipFail"
                /\ processStatus' = NotProcessing
                /\ UNCHANGED downloads
           ELSE /\ processStatus' = [isProcessing |-> TRUE, message |-> "statusCreatingZip",
                                     progress |-> 95]
                /\ downloads' = Append(downloads,
                                       [zip |-> [k \in 1..Len(targets) |-> its[k - 1].file]])
                /\ UNCHANGED errorMessage
    /\ events' = events + 1
    /\ ev' = [op |-> IF processStatus'.isProcessing THEN "download" ELSE "downloadFail",
              id |-> -1]
    /\ UNCHANGED <<heap, engine, conv, resizing, processingRef, frames,
                   reference, targets, results, imageCache, workerRef, timers,
                   batches, selects>>

\* Continuation after zip.generateAsync
handleDownloadZipDone ==
    \E k \in 1..Len(downloads) :
        /\ processStatus' = [isProcessing |-> FALSE, message |-> "statusDone",
                             progress |-> 100]
        /\ downloads' = RemoveAt(downloads, k)
        /\ ev' = [op |-> "downloadDone", id |-> -1]
        /\ UNCHANGED <<heap, engine, conv, resizing, processingRef, frames,
                       reference, targets, results, errorMessage, imageCache,
                       workerRef, timers, batches, selects, events>>

Next ==
    \/ performReset
    \/ handleFileSelectReference
    \/ handleFileSelectTarget
    \/ handleFileSelectDone
    \/ executeColorTransfer
    \/ executeColorTransferNext
    \/ executeColorTransferDone
    \/ handleIntensityChange
    \/ handleShadowChange
    \/ debounceTimeout
    \/ handleDownloadZip
    \/ handleDownloadZipDone

Spec == Init /\ [][Next]_vars

\* Every await of the handlers settles: loadImage resolves on onload and
\* rejects on onerror, the 20 ms timeout of the batch fires, and
\* zip.generateAsync settles.  The continuations are therefore taken
\* eventually; the user's own events are not forced.
LiveSpec ==
    /\ Init
    /\ [][Next]_vars
    /\ WF_vars(handleFileSelectDone)
    /\ WF_vars(executeColorTransferNext)
    /\ WF_vars(executeColorTransferDone)
    /\ WF_vars(handleDownloadZipDone)

\* ---- colour engine run on concrete pixels ----
\* The calls executeColorTransfer makes for one target, in its order:
\* computeStats of the reference, computeStats of the target,
\* processImageBuffer; then computeStats of the output, to measure it.
\* The controller's variables keep their initial values.
EngineInit ==
    /\ ControllerStart
    /\ \/ /\ \E r \in EngineImages, t \in EngineImages,
                i \in EngineIntensities, s \in EngineShadows :
                /\ heap = <<r, t>>
                /\ engine = [EngineIdle EXCEPT !.stage = "start", !.ref = 1,
                                               !.tgt = 2, !.intensity = i,
                                               !.shadowStrength = s]
          /\ conv = ConvIdle
          /\ resizing = ResizeIdle
       \/ /\ heap = <<>>
          /\ engine = EngineIdle
          /\ \E t \in RGBSamples : conv = [ConvIdle EXCEPT !.stage = "start", !.rgb = t]
          /\ resizing = ResizeIdle
       \/ /\ heap = <<>>
          /\ engine = EngineIdle
          /\ conv = ConvIdle
          /\ \E w \in ResizeSides, h \in ResizeSides, e \in ResizeEdges :
                resizing = [ResizeIdle EXCEPT
                             !.stage = "start",
                             !.img = [name |-> "img", width |-> w, height |-> h],
                             !.longEdge = e]
    /\ processingRef = <<>>
    /\ frames = <<>>

ControllerVars == <<reference, targets, results, processStatus, errorMessage,
                    imageCache, workerRef, timers, batches, downloads, selects,
                    events, ev>>

ThrottleVars == <<processingRef, frames>>

engineRefStats ==
    /\ engine.stage = "start"
    /\ engine' = IF getImageDataThrows(heap[engine.ref])
                 THEN [engine EXCEPT !.stage = "failed"]
                 ELSE [engine EXCEPT !.stage = "refStats",
                          !.refStats = <<computeStatsData(heap[engine.ref].data)>>]
    /\ UNCHANGED <<heap, conv, resizing, ControllerVars, ThrottleVars>>

engineTgtStats ==
    /\ engine.stage = "refStats"
    /\ engine' = IF getImageDataThrows(heap[engine.tgt])
                 THEN [engine EXCEPT !.stage = "failed"]
                 ELSE [engine EXCEPT !.stage = "tgtStats",
                          !.tgtStats = <<computeStatsData(heap[engine.tgt].data)>>]
    /\ UNCHANGED <<heap, conv, resizing, ControllerVars, ThrottleVars>>

\* The values are bound once, as the code's locals are.
engineProcess ==
    /\ engine.stage = "tgtStats"
    /\ \E trace \in {processImageData(heap[engine.tgt].data, engine.refStats[1],
                                      engine.tgtStats[1], engine.intensity,
                                      engine.shadowStrength)} :
         \E new \in {NewImageData(heap, engine.tgt,
                                  [k \in 1..Len(trace) |-> trace[k].out])} :
            /\ heap' = new.heap
            /\ engine' = [engine EXCEPT !.stage = "processed",
                                        !.trace = trace, !.out = new.out]
    /\ UNCHANGED <<conv, resizing, ControllerVars, ThrottleVars>>

engineOutStats ==
    /\ engine.stage = "processed"
    /\ engine' = [engine EXCEPT !.stage = "measured",
                     !.outStats = <<computeStatsData(heap[engine.out].data)>>]
    /\ UNCHANGED <<heap, conv, resizing, ControllerVars, ThrottleVars>>

convRoundTrip ==
    /\ conv.stage = "start"
    /\ conv' = [conv EXCEPT !.stage = "done", !.lab = rgb2oklab(conv.rgb),
                            !.back = oklab2rgb(rgb2oklab(conv.rgb))]
    /\ UNCHANGED <<heap, engine, resizing, ControllerVars, ThrottleVars>>

\* resizeImageCanvas applied to one image and one long edge
resizeRun ==
    /\ resizing.stage = "start"
    /\ resizing' = [resizing EXCEPT
                       !.stage = "done",
                       !.out = resizeImageCanvas(resizing.img, resizing.longEdge)]
    /\ UNCHANGED <<heap, engine, conv, ControllerVars, ThrottleVars>>

EngineNext ==
    \/ engineRefStats
    \/ engineTgtStats
    \/ engineProcess
    \/ engineOutStats
    \/ convRoundTrip
    \/ resizeRun

EngineSpec == EngineInit /\ [][EngineNext]_vars

\* ---- slider throttle of the earlier revision (src/unnamed/part_000) ----
\* handleIntensityChange there records the value, and schedules a
\* recomputation with requestAnimationFrame unless processingRef marks one as
\* pending for the index.  The state is the one a finished batch leaves:
\* one result per target at intensity 50, one cache entry per result.
ThrottleTargets == {<<FileA>>, <<FileA, FileB>>}

\* processImageBuffer of that revision (symbolic): four arguments
processImageBuffer4(imgData, refStats, tgtStats, intensity) ==
    [data |-> imgData, refStats |-> refStats, tgtStats |-> tgtStats,
     intensity |-> intensity]

\* cache entry and result of loop iteration i of that revision's batch
ThrottleEntry(ref, tgts, i) ==
    LET previewResized == resizeImageCanvas(tgts[i + 1], PREVIEW_EDGE)
    IN [ctx |-> previewResized, width |-> previewResized.width,
        height |-> previewResized.height,
        tgtStats |-> computeStats(previewResized),
        refStats |-> computeStats(resizeImageCanvas(ref, RESIZE_LONG_EDGE))]

ThrottleResult(ref, tgts, i) ==
    LET c == ThrottleEntry(ref, tgts, i)
    IN [name |-> tgts[i + 1].name,
        resultUrl |-> processImageBuffer4(c.ctx, c.refStats, c.tgtStats,
                                          DEFAULT_INTENSITY),
        intensity |-> DEFAULT_INTENSITY, id |-> i]

ThrottleInit ==
    /\ \E files \in ThrottleTargets :
          LET ref == ImageState(FileA)
              tgts == [k \in 1..Len(files) |-> ImageState(files[k])]
          IN /\ reference = <<ref>>
             /\ targets = tgts
             /\ results = [k \in 1..Len(tgts) |-> ThrottleResult(ref, tgts, k - 1)]
             /\ imageCache = [i \in 0..(Len(tgts) - 1) |-> ThrottleEntry(ref, tgts, i)]
    /\ processStatus = [isProcessing |-> FALSE, message |-> "statusDone",
                        progress |-> 100]
    /\ errorMessage = ""
    /\ workerRef = <<>>
    /\ timers = {}
    /\ batches = <<>>
    /\ downloads = <<>>
    /\ selects = <<>>
    /\ events = 0
    /\ ev = [op |-> "init", id |-> -1]
    /\ heap = <<>>
    /\ engine = EngineIdle
    /\ conv = ConvIdle
    /\ resizing = ResizeIdle
    /\ processingRef = <<>>
    /\ frames = <<>>

\* setResults(prev => prev.map((res, i) => i === index ? {...res, intensity: val} : res))
SetIntensityAt(rs, index, val) ==
    [k \in 1..Len(rs) |-> IF k = index + 1 THEN [rs[k] EXCEPT !.intensity = val]
                          ELSE rs[k]]

\* The slider of result index moves to val.  The callback closes over val and
\* over results[index].id of the render the handler belongs to.
handleIntensityChangeThrottled ==
    \E index \in 0..(MaxTargets - 1), val \in IntensityVals :
        /\ events < MaxEvents
        /\ index + 1 <= Len(results)
        /\ results' = SetIntensityAt(results, index, val)
        /\ IF index \in DOMAIN processingRef /\ processingRef[index]
           THEN UNCHANGED <<processingRef, frames>>
           ELSE /\ processingRef' = (index :> TRUE) @@ processingRef
                /\ frames' = Append(frames, [index |-> index, val |-> val,
                                             id |-> results[index + 1].id])
        /\ events' = events + 1
        /\ ev' = [op |-> "intensity", id |-> index]
        /\ UNCHANGED <<heap, engine, conv, resizing, reference, targets,
                       processStatus, errorMessage, imageCache, workerRef, timers,
                       batches, downloads, selects>>

\* One requestAnimationFrame callback f on the state <<rs, flags>>: it
\* returns early, leaving the flag set, when the cache has no entry.
FrameCallback(f, rs, flags) ==
    IF f.id \notin DOMAIN imageCache THEN <<rs, flags>>
    ELSE LET c == imageCache[f.id]
             processed == processImageBuffer4(c.ctx, c.refStats, c.tgtStats, f.val)
         IN << [k \in 1..Len(rs) |->
                   IF k = f.index + 1 THEN [rs[k] EXCEPT !.resultUrl = processed]
                   ELSE rs[k]],
               (f.index :> FALSE) @@ flags >>

RECURSIVE RunFrames(_, _, _)
RunFrames(fs, rs, flags) ==
    IF fs = <<>> THEN <<rs, flags>>
    ELSE LET after == FrameCallback(Head(fs), rs, flags)
         IN RunFrames(Tail(fs), after[1], after[2])

\* The browser's next frame: the callbacks registered so far run in the
\* order in which they were registered.
animationFrame ==
    /\ frames # <<>>
    /\ LET after == RunFrames(frames, results, processingRef)
       IN /\ results' = after[1]
          /\ processingRef' = after[2]
    /\ frames' = <<>>
    /\ ev' = [op |-> "frame", id |-> -1]
    /\ UNCHANGED <<heap, engine, conv, resizing, reference, targets,
                   processStatus, errorMessage, imageCache, workerRef, timers,
                   batches, downloads, selects, events>>

\* performReset of that revision: processingRef is not reset and a pending
\* frame is not cancelled
performResetThrottled ==
    /\ events < MaxEvents
    /\ Len(reference) > 0 \/ Len(targets) > 0
    /\ reference' = <<>>
    /\ targets' = <<>>
    /\ results' = <<>>
    /\ processStatus' = NotProcessing
    /\ errorMessage' = ""
    /\ imageCache' = <<>>
    /\ events' = events + 1
    /\ ev' = [op |-> "reset", id |-> -1]
    /\ UNCHANGED <<heap, engine, conv, resizing, processingRef, frames,
                   workerRef, timers, batches, downloads, selects>>

ThrottleNext ==
    \/ handleIntensityChangeThrottled
    \/ animationFrame
    \/ performResetThrottled

ThrottleSpec == ThrottleInit /\ [][ThrottleNext]_vars


\* ======================= properties =======================
\* what a batch over the current reference and targets would cache for id
CurrentRefStats == computeStats(resizeImageCanvas(reference[1], RESIZE_LONG_EDGE))

CurrentPreview(id) == resizeImageCanvas(targets[id + 1], PREVIEW_EDGE)

IsPrefix(s, t) == Len(s) <= Len(t) /\ \A k \in 1..Len(s) : s[k] = t[k]

PendingFor(id) == {t \in timers : t.id = id}

IsParamChange(e) == e.op \in {"intensity", "shadow"}

\* C1 Debounce: each image id has at most one pending recomputation; a
\* parameter change for one id leaves the pending recomputation of every
\* other id in place; and the recomputation left pending after a change
\* carries the latest value of both parameters (those recorded in the result
\* after the change), which is what it renders with when it runs.
C1_AtMostOnePending == \A id \in 0..(MaxTargets - 1) : Cardinality(PendingFor(id)) <= 1

C1_ChangeStep ==
    IsParamChange(ev') =>
        /\ \A t \in timers : t.id # ev'.id => t \in timers'
        /\ \A t \in timers' : t.id = ev'.id =>
              \A k \in 1..Len(results') : results'[k].id = t.id =>
                  /\ TimerIntensity(t) = results'[k].intensity
                  /\ TimerShadow(t) = results'[k].shadow

C1_FireStep ==
    \A t \in timers :
        (timers' = timers \ {t} /\ ev'.op = "timerFire" /\ ev'.id = t.id) =>
            \A k \in 1..Len(results') : results'[k].id = t.id =>
                /\ results'[k].resultUrl.intensity = TimerIntensity(t)
                /\ results'[k].resultUrl.shadow = TimerShadow(t)

C1_Debounce == []C1_AtMostOnePending /\ [][C1_ChangeStep /\ C1_FireStep]_vars

\* C1 witness: a parameter change for id 1 has just been handled while a
\* recomputation for id 0 was pending; both are pending now, one per id, and
\* neither result has been re-rendered yet.
C1_Witness ==
    /\ IsParamChange(ev) /\ ev.id = 1
    /\ \E t0 \in timers, t1 \in timers : t0.id = 0 /\ t1.id = 1 /\ t0.h < t1.h
    /\ Len(results) = 2
    /\ \A k \in 1..2 : /\ results[k].resultUrl.intensity = DEFAULT_INTENSITY
                       /\ results[k].resultUrl.shadow = DEFAULT_SHADOW

\* C2 Cache invalidation: a recomputation that has just run for an image id
\* used the statistics of the reference now selected and the preview buffer
\* of the target now at that index, never those of a superseded reference
\* or target set.
C2_NoStaleReprocess ==
    ev.op = "timerFire" =>
        \A k \in 1..Len(results) : results[k].id = ev.id =>
            /\ Len(reference) > 0
            /\ ev.id + 1 <= Len(targets)
            /\ results[k].resultUrl.refStats = CurrentRefStats
            /\ results[k].resultUrl.data = CurrentPreview(ev.id)

\* C3 Batch ordering: a batch in flight has processed its targets strictly
\* in order (its results so far are those of the first targets, result k
\* under identifier k), and when a batch completes, the results it emits are
\* one per target in input order, result k carrying identifier k, built from
\* target k of the batch, with the cache holding under identifier k the
\* buffer that result was rendered from.
C3_InOrder ==
    \A j \in 1..Len(batches) :
        LET b == batches[j]
        IN  /\ b.i = Len(b.newResults)
            /\ \A k \in 1..Len(b.newResults) :
                 /\ b.newResults[k].id = k - 1
                 /\ b.newResults[k].name = b.targets[k].name
                 /\ b.newResults[k].resultUrl.data = resizeImageCanvas(b.targets[k], PREVIEW_EDGE)

C3_Completion ==
    ev'.op = "batchDone" =>
        \E j \in 1..Len(batches) :
            LET b == batches[j]
            IN  /\ batches' = RemoveAt(batches, j)
                /\ Len(results') = Len(b.targets)
                /\ \A k \in 1..Len(results') :
                     /\ results'[k].id = k - 1
                     /\ results'[k].name = b.targets[k].name
                     /\ (k - 1) \in DOMAIN imageCache'
                     /\ imageCache'[k - 1].ctx = results'[k].resultUrl.data

C3_BatchOrdering == []C3_InOrder /\ [][C3_Completion]_vars

\* C4 Per-image error isolation: when an image of a batch fails, an error is
\* signalled and the batch is not aborted: either it is still in flight
\* for the remaining targets, or the host has a result for every target of
\* the batch that can be processed.
Processable(img) == ~getImageDataThrows(resizeImageCanvas(img, PREVIEW_EDGE))

OthersProduced(tgts, rs) ==
    \A k \in 1..Len(tgts) : Processable(tgts[k]) =>
        \E r \in 1..Len(rs) :
            /\ rs[r].name = tgts[k].name
            /\ rs[r].resultUrl.data = resizeImageCanvas(tgts[k], PREVIEW_EDGE)

C4_FailStep ==
    /\ ev'.op = "batchFail" =>
         /\ errorMessage' # ""
         /\ \E j \in 1..Len(batches) :
              /\ batches[j].i = ev'.id
              /\ Len(batches') = Len(batches) \/ OthersProduced(batches[j].targets, results')
    /\ ev'.op = "adjustFail" =>
         /\ errorMessage' # ""
         /\ Len(batches') = Len(batches) + 1 \/ OthersProduced(targets, results')

C4_ErrorIsolation == [][C4_FailStep]_vars

\* C5 Partial results are kept: once a batch has computed the results of
\* images 0..j, every later step leaves them either with a batch still in
\* flight over the same targets or in the results the host holds; they are
\* never dropped.
C5_KeptStep ==
    \A j \in 1..Len(batches) :
        LET b == batches[j]
        IN  Len(b.newResults) > 0 =>
              \/ \E i \in 1..Len(batches') :
                    /\ batches'[i].targets = b.targets
                    /\ IsPrefix(b.newResults, batches'[i].newResults)
              \/ IsPrefix(b.newResults, results')

C5_PartialResultsKept == [][C5_KeptStep]_vars

\* C6 Cache miss on reprocess: when the debounced recomputation finds no
\* cache entry for its image id, an error is shown to the host.
C6_MissSignalled == ev.op = "timerMiss" => errorMessage # ""

IsTimerStep(e) == e.op \in {"timerFire", "timerMiss", "timerNoTarget"}

\* C7 Idempotent reprocess: the image a recomputation leaves on display is
\* the one function of the cache entry and of the two parameters it ran
\* with, whatever was displayed or recomputed before; run again with the
\* parameters and the cache entry the displayed image was made from, it
\* yields the identical image.
C7_FunctionOfEntry ==
    ev.op = "timerFire" =>
        \A k \in 1..Len(results) : results[k].id = ev.id =>
            /\ ev.id \in DOMAIN imageCache
            /\ LET c == imageCache[ev.id]
                   u == results[k].resultUrl
               IN  u = processImageBuffer(c.ctx, c.refStats, c.tgtStats, u.intensity, u.shadow)

C7_SameAgain ==
    \A t \in timers :
        (timers' = timers \ {t} /\ ev'.op = "timerFire" /\ ev'.id = t.id) =>
            \A k \in 1..Len(results) :
                ( /\ results[k].id = t.id
                  /\ results[k].resultUrl.intensity = TimerIntensity(t)
                  /\ results[k].resultUrl.shadow = TimerShadow(t)
                  /\ results[k].resultUrl.data = imageCache[t.id].ctx
                  /\ results[k].resultUrl.refStats = imageCache[t.id].refStats
                  /\ results[k].resultUrl.tgtStats = imageCache[t.id].tgtStats )
                => results'[k].resultUrl = results[k].resultUrl

WholeEntry(e) ==
    /\ e.width = e.ctx.width /\ e.height = e.ctx.height
    /\ e.tgtStats = computeStats(e.ctx)
    /\ DOMAIN e.ctx = {"name", "width", "height"}

C8_Step ==
    /\ (IsParamChange(ev') \/ IsTimerStep(ev')) => imageCache' = imageCache
    /\ ev'.op = "timerFire" =>
         \A k \in 1..Len(results') : results'[k].id = ev'.id =>
             /\ results'[k].resultUrl.data = imageCache[ev'.id].ctx
             /\ results'[k].resultUrl.tgtStats = imageCache[ev'.id].tgtStats
             /\ results'[k].resultUrl.refStats = imageCache[ev'.id].refStats
    /\ imageCache' # imageCache =>
         \/ imageCache' = <<>>
         \/ \E i \in DOMAIN imageCache' :
              /\ WholeEntry(imageCache'[i])
              /\ \A j \in DOMAIN imageCache' \ {i} :
                    j \in DOMAIN imageCache /\ imageCache'[j] = imageCache[j]
              /\ DOMAIN imageCache' \ {i} \in {DOMAIN imageCache \ {i}, {}}

C8_ReprocessReadsOnly == [][C8_Step]_vars

\* C8 witness: a recomputation has just run and the cache entry it read is
\* still the entry the batch stored.
C8_Witness ==
    /\ ev.op = "timerFire"
    /\ ev.id \in DOMAIN imageCache
    /\ WholeEntry(imageCache[ev.id])
    /\ \E k \in 1..Len(results) :
          /\ results[k].id = ev.id
          /\ results[k].resultUrl.intensity # DEFAULT_INTENSITY
          /\ results[k].resultUrl.data = imageCache[ev.id].ctx

\* C9 Yield between images: one turn of a batch processes at most one
\* target; after each processed target the batch is suspended, so other
\* handlers run before the next target.
C9_Step ==
    /\ Len(batches') = Len(batches) =>
         \A j \in 1..Len(batches) : batches'[j].i <= batches[j].i + 1
    /\ Len(batches') = Len(batches) + 1 =>
         /\ batches'[Len(batches')].i = 1
         /\ SubSeq(batches', 1, Len(batches)) = batches

C9_YieldBetweenImages == [][C9_Step]_vars

\* C9 witness: a slider change or a file selection or a reset has just been
\* handled while a batch is between two of its images.
C9_Witness ==
    /\ ev.op \in {"intensity", "shadow", "select", "reset"}
    /\ \E j \in 1..Len(batches) :
          batches[j].i > 0 /\ batches[j].i < Len(batches[j].targets)

LastZip == downloads[Len(downloads)].zip

Processed == engine.stage \in {"processed", "measured"}

TargetData == heap[engine.tgt].data

OutputData == heap[engine.out].data

UsedCoefficients == Coefficients(engine.refStats[1], engine.tgtStats[1], engine.intensity)

\* C11: identity at zero intensity.  For every reference/target statistics
\* pair and every shadow strength, processImageBuffer with intensity = 0 has
\* per-channel scale 1 and offset 0 and leaves every pixel unchanged.
C11_IdentityAtZero ==
    Processed /\ engine.intensity = 0 =>
        /\ \A c \in 1..3 : UsedCoefficients.A[c] = ONE /\ UsedCoefficients.B[c] = 0
        /\ OutputData = TargetData

\* C12: highlight protection.  A target pixel (255,255,255) is output as
\* (255,255,255) for every reference statistics, target statistics,
\* intensity and shadow strength.
C12_HighlightProtection ==
    Processed =>
        \A k \in 1..Len(TargetData) :
            TargetData[k] = <<255, 255, 255>> => OutputData[k] = <<255, 255, 255>>

\* C13: boundary safety.  For every input image (all-black, all-white and
\* single-colour images included) and every statistics/parameter
\* combination, every colour channel written by processImageBuffer is an
\* integer in 0..255, one pixel out per pixel in.
C13_BoundarySafety ==
    Processed =>
        /\ Len(OutputData) = Len(TargetData)
        /\ \A k \in 1..Len(OutputData) : \A c \in 1..3 : OutputData[k][c] \in 0..255

\* an all-black target whose linear value fell below 0 and was clamped
C13_Witness ==
    /\ Processed
    /\ TargetData = ImageBlack.data
    /\ engine.trace[1].lin[1] < 0
    /\ OutputData[1] = <<0, 0, 0>>

\* C14: apply does not mutate its input.  processImageBuffer returns a newly
\* allocated buffer of the same width and height, and every buffer that
\* existed before the call, the input included, is unchanged afterwards.
C14_Step ==
    engine.stage = "tgtStats" /\ engine'.stage = "processed" =>
        /\ engine'.out \notin DOMAIN heap
        /\ engine'.out \in DOMAIN heap'
        /\ heap'[engine'.out].width = heap[engine.tgt].width
        /\ heap'[engine'.out].height = heap[engine.tgt].height
        /\ \A id \in DOMAIN heap : heap'[id] = heap[id]

C14_NoInputMutation == [][C14_Step]_vars

\* the grey target processed into different pixels, itself still in place
C14_Witness ==
    /\ Processed
    /\ heap[engine.tgt] = ImageGrey
    /\ engine.out # engine.tgt
    /\ OutputData # TargetData

ComputedStats ==
    {<<engine.ref, engine.refStats>>, <<engine.tgt, engine.tgtStats>>,
     <<engine.out, engine.outStats>>}

\* C15: statistics extraction never fails.  computeStats returns a value for
\* every buffer, with std >= 0 in each channel, and for a buffer with zero
\* pixels it returns exactly the sentinel mean = [0,0,0], std = [1,1,1].
C15_StatsNeverFail ==
    /\ engine.stage # "failed"
    /\ \A p \in ComputedStats :
          Len(p[2]) = 1 =>
             /\ \A c \in 1..3 : p[2][1].std[c] >= 0
             /\ Len(heap[p[1]].data) = 0 => p[2][1] = SENTINEL_STATS

\* C16: colour-space round trip.  For every 8-bit RGB triple,
\* oklab2rgb(rgb2oklab(r, g, b)) returns exactly (r, g, b).
C16_RoundTrip == conv.stage = "done" => conv.back = conv.rgb

\* a saturated triple converted to a colour with chroma and back
C16_Witness ==
    /\ conv.stage = "done"
    /\ conv.rgb = <<200, 11, 254>>
    /\ conv.lab[2] # 0
    /\ conv.lab[3] # 0
    /\ conv.back = <<200, 11, 254>>

\* C17: raw scale clamp.  For every channel the raw scale is
\* capped_ref_std / tgt_std when tgt_std exceeds the epsilon and 1.0
\* otherwise, and the value that enters the coefficients lies in [1/3, 3].
C17_RawScaleClamped ==
    Processed =>
        \A c \in 1..3 :
            LET raw == UsedCoefficients.raw[c]
                refStd == engine.refStats[1].std[c]
                tgtStd == engine.tgtStats[1].std[c]
                ratio == Div(Min(refStd, REF_STD_CAP), tgtStd)
            IN /\ tgtStd <= STD_EPSILON => raw = ONE
               /\ tgtStd > STD_EPSILON =>
                     raw = Max(ONE \div 3, Min(3 * ONE, ratio))
               /\ raw >= ONE \div 3
               /\ raw <= 3 * ONE

\* the reference statistics with every std replaced by min(std, 0.18)
CappedRefStats ==
    [mean |-> engine.refStats[1].mean,
     std |-> [c \in 1..3 |-> Min(engine.refStats[1].std[c], REF_STD_CAP)]]

\* a flat low-contrast image: no channel spreads more than 0.05
FlatLowContrast(stats) == \A c \in 1..3 : stats.std[c] <= 50000

\* C18: the reference std cap bounds the effect.  The coefficients for a
\* reference std >= 0.18 equal those for reference std = 0.18, and at
\* intensity = 100 with a flat low-contrast target the standard deviation of
\* the output does not exceed the capped ceiling 0.18 in any channel.
C18_RefStdCapBounds ==
    /\ Processed =>
          Coefficients(CappedRefStats, engine.tgtStats[1], engine.intensity)
             = UsedCoefficients
    /\ engine.stage = "measured" /\ engine.intensity = 100
         /\ FlatLowContrast(engine.tgtStats[1]) =>
          \A c \in 1..3 : engine.outStats[1].std[c] <= REF_STD_CAP

\* C19: shadow curve.  For every lightness below the cutoff 0.65 that
\* reaches the curve, the multiplier lies between the floor
\* max(0, 1 - shadowStrength/100 * 1.4) and 1.0 and is never negative; at or
\* above the cutoff the lightness is unchanged by the curve; and
\* shadowStrength = 0 makes the curve a no-op.
C19_ShadowCurve ==
    Processed =>
        \A k \in 1..Len(engine.trace) :
            LET px == engine.trace[k]
                floor == crushMinFactor(engine.shadowStrength)
            IN /\ px.lifted < CRUSH_CUTOFF =>
                     /\ px.crush >= floor
                     /\ px.crush <= ONE
                     /\ px.crush >= 0
                     /\ px.l_new = Mul(px.lifted, px.crush)
               /\ px.lifted >= CRUSH_CUTOFF => px.l_new = px.lifted
               /\ engine.shadowStrength = 0 => px.l_new = px.lifted

\* C20: luminance masking.  The chroma blend weight depends only on the
\* pixel's original lightness L: it is 1.0 for L in [0.08, 0.90], L * 12.5
\* below 0.08, 1 - (L - 0.90) * 10 above 0.90, always within [0, 1]; the
\* output chroma is original + (candidate - original) * weight, so at weight
\* 0 the output chroma equals the original chroma.
C20_LuminanceMask ==
    Processed =>
        \A k \in 1..Len(engine.trace) :
            LET px == engine.trace[k]
                L == px.lab[1]
            IN /\ px.lab = rgb2oklab(TargetData[k])
               /\ L >= 80000 /\ L <= 900000 => px.weight = ONE
               /\ L < 80000 => px.weight = Max(0, (L * 125) \div 10)
               /\ L > 900000 => px.weight = Max(0, ONE - (L - 900000) * 10)
               /\ px.weight >= 0
               /\ px.weight <= ONE
               /\ \A c \in 1..2 :
                     /\ px.final[c] = px.lab[c + 1]
                                      + Mul(px.raw[c] - px.lab[c + 1], px.weight)
                     /\ px.weight = 0 => px.final[c] = px.lab[c + 1]

\* a white pixel whose candidate chroma differs from its own is kept at its
\* own chroma (weight 0), next to a mid-tone pixel blended at weight 1
C20_Witness ==
    /\ Processed
    /\ \E k \in 1..Len(engine.trace) :
          /\ engine.trace[k].rgb = <<255, 255, 255>>
          /\ engine.trace[k].weight = 0
          /\ engine.trace[k].raw[2] # engine.trace[k].lab[3]
          /\ engine.trace[k].final[2] = engine.trace[k].lab[3]
    /\ \E k \in 1..Len(engine.trace) :
          /\ engine.trace[k].weight = ONE
          /\ engine.trace[k].final[2] = engine.trace[k].raw[2]
          /\ engine.trace[k].final[2] # engine.trace[k].lab[3]

\* C21: neutral match.  When the reference and the target are both uniform
\* mid-grey (128,128,128), their statistics are equal and the processed
\* output equals the input pixel for every intensity in 0..100.
C21_NeutralMatch ==
    Processed /\ heap[engine.ref] = ImageMidGrey /\ heap[engine.tgt] = ImageMidGrey =>
        /\ engine.refStats = engine.tgtStats
        /\ OutputData = TargetData

\* mean of the output of processImageBuffer at intensity i, for the run's
\* target, statistics and shadow strength
OutputMeanAt(i) ==
    LET trace == processImageData(TargetData, engine.refStats[1], engine.tgtStats[1],
                                  i, engine.shadowStrength)
    IN computeStatsData([k \in 1..Len(trace) |-> trace[k].out]).mean

\* per-channel distance between the output mean at intensity i and the
\* reference mean
MeanDistanceAt(i) ==
    [c \in 1..3 |-> Abs(OutputMeanAt(i)[c] - engine.refStats[1].mean[c])]

\* neither the reference std cap nor the scale cap is active in any channel
Uncapped ==
    \A c \in 1..3 :
        /\ engine.refStats[1].std[c] <= REF_STD_CAP
        /\ engine.tgtStats[1].std[c] > STD_EPSILON =>
              Div(engine.refStats[1].std[c], engine.tgtStats[1].std[c]) < SCALE_CAP

\* slack for the rounding of the output to 8 bits: 0.005
MeanTolerance == ONE \div 200

\* C22: monotonic strength.  For fixed reference and target statistics,
\* increasing the intensity never increases the distance between the mean of
\* the output and the reference mean, in any channel, while no cap is
\* active.
C22_MonotonicStrength ==
    engine.stage = "measured" /\ Len(TargetData) > 0 /\ Uncapped =>
        \A i \in EngineIntensities :
            i < engine.intensity =>
                \A c \in 1..3 :
                    Abs(engine.outStats[1].mean[c] - engine.refStats[1].mean[c])
                        <= MeanDistanceAt(i)[c] + MeanTolerance

\* ---- properties of the slider throttle (ThrottleSpec) ----
\* C23: the throttled variant keeps the latest value.  Whenever no
\* requestAnimationFrame callback is pending, every result on display was
\* last recomputed with the intensity last set for it.
C23_ThrottleKeepsLatest ==
    frames = <<>> =>
        \A k \in 1..Len(results) : results[k].resultUrl.intensity = results[k].intensity

\* ---- further properties of the controller (Spec) ----
\* batches and exports suspended at an await
LongOperations == Len(batches) + Len(downloads)

\* C24: single worker.  At most one long operation (batch or export) is in
\* flight at any time, and processStatus.isProcessing is true for as long as
\* one is in flight.
C24_SingleWorker ==
    /\ LongOperations <= 1
    /\ LongOperations > 0 => processStatus.isProcessing

\* the rendering of the cache entry of result r with r's recorded parameters
RenderingOf(r) ==
    LET c == imageCache[r.id]
    IN processImageBuffer(c.ctx, c.refStats, c.tgtStats, r.intensity, r.shadow)

\* C25: the displayed result matches the recorded parameters.  Whenever no
\* batch is running and no debounce timer is pending, the output on display
\* for each result is the rendering of that image's current cache entry with
\* the intensity and the shadow strength recorded in the result.
C25_DisplayMatchesParameters ==
    Len(batches) = 0 /\ timers = {} =>
        \A k \in 1..Len(results) :
            /\ results[k].id \in DOMAIN imageCache
            /\ results[k].resultUrl = RenderingOf(results[k])

\* reference, targets, results and the cache are all empty
AllEmpty ==
    /\ reference = <<>>
    /\ targets = <<>>
    /\ results = <<>>
    /\ DOMAIN imageCache = {}

\* a step of handleFileSelect: the handler's start or its continuation
IsSelectStep(e) == e.op \in {"select", "selectDone"}

C26_Step == AllEmpty /\ ~IsSelectStep(ev') => AllEmpty'

\* the step of performReset itself empties the four
C26_ResetStep == ev'.op = "reset" => AllEmpty'

\* C26: reset is final.  performReset leaves reference, targets, results and
\* the cache empty, and they stay empty until a file selection, whatever
\* batch or debounce timer was in flight at the reset.
C26_ResetIsFinal == [][C26_ResetStep /\ C26_Step]_vars

\* handleDownloadZip would run to its await: one file per target
ExportSucceeds ==
    LET refResized == resizeImageCanvas(reference[1], RESIZE_LONG_EDGE)
        refStats == computeStats(refResized)
    IN /\ ~getImageDataThrows(refResized)
       /\ \A i \in 0..(Len(targets) - 1) : ~ExportIteration(refStats, i).throws

\* C27: results cover all targets at export.  Whenever results is non-empty
\* and no batch is running, results has exactly one entry per current target
\* (results[i].id = i for every index i of targets), so that handleDownloadZip
\* produces one file per target and does not fail.
C27_ResultsCoverTargets ==
    Len(results) > 0 /\ Len(batches) = 0 =>
        /\ Len(results) = Len(targets)
        /\ \A k \in 1..Len(targets) : results[k].id = k - 1
        /\ Len(reference) > 0 => ExportSucceeds

\* the zip handed to generateAsync by the export in flight
C28_Exporting == Len(downloads) > 0 /\ ev.op = "download"

C28_ExportUsesIntensity ==
    C28_Exporting =>
        LET zip == downloads[Len(downloads)].zip
        IN \A k \in 1..Len(zip) : zip[k].data.intensity = results[k].intensity

\* the step ends an operation: a suspended handler finishes, or a batch or
\* an export fails before its first await
EndsOperation ==
    \/ Len(selects') < Len(selects)
    \/ Len(batches') < Len(batches)
    \/ Len(downloads') < Len(downloads)
    \/ ev'.op \in {"adjustFail", "downloadFail"}

C29_EndStep == EndsOperation => ~processStatus'.isProcessing

\* C29: the processing flag always clears.  Every file selection, batch and
\* export comes to its end, on success and on every failure path; the step
\* that ends it sets processStatus.isProcessing to false; and a set flag is
\* always followed by a cleared one.
C29_FlagAlwaysClears ==
    /\ [][C29_EndStep]_vars
    /\ (InFlight > 0) ~> (InFlight = 0)
    /\ processStatus.isProcessing ~> ~processStatus.isProcessing

\* a batch that failed at an image after its first yield, the flag cleared
C29_Witness ==
    /\ ev.op = "batchFail"
    /\ errorMessage = "Processing failed."
    /\ ~processStatus.isProcessing
    /\ InFlight = 0

\* ---- resizeImageCanvas (EngineSpec) ----
\* C30: resize dimensions.  For every image with width and height >= 1 and
\* every longEdge >= 1, resizeImageCanvas returns the dimensions unchanged
\* when both are <= longEdge; otherwise the longer side becomes exactly
\* longEdge and the shorter side round(shorter * longEdge / longer); and both
\* output dimensions are >= 1.
C30_ResizeDimensions ==
    resizing.stage = "done" =>
        LET w == resizing.img.width
            h == resizing.img.height
            e == resizing.longEdge
            out == resizing.out
        IN /\ w <= e /\ h <= e => out.width = w /\ out.height = h
           /\ (w > e \/ h > e) /\ w > h =>
                 out.width = e /\ out.height = (2 * h * e + w) \div (2 * w)
           /\ (w > e \/ h > e) /\ w <= h =>
                 out.height = e /\ out.width = (2 * w * e + h) \div (2 * h)
           /\ out.width >= 1
           /\ out.height >= 1

\* the same without the lower bound on the output
C30_ResizeFormula ==
    resizing.stage = "done" =>
        LET w == resizing.img.width
            h == resizing.img.height
            e == resizing.longEdge
            out == resizing.out
        IN /\ w <= e /\ h <= e => out.width = w /\ out.height = h
           /\ (w > e \/ h > e) /\ w > h =>
                 out.width = e /\ out.height = (2 * h * e + w) \div (2 * w)
           /\ (w > e \/ h > e) /\ w <= h =>
                 out.height = e /\ out.width = (2 * w * e + h) \div (2 * h)

====
